---- MODULE Spec2Model ----
(***************************************************************************)
(* A model of the koishi gitlab-webhook plugin (src/src/index.ts): the     *)
(* module-level registries `webhooks` and `servers`, the plugin entry      *)
(* point `apply`, the start/stop hooks it registers, the asynchronous      *)
(* event handler built by `wrapHandler`, and the five message formatters.  *)
(*                                                                         *)
(* Text is a sequence of tokens: a token is a one-character string, or a   *)
(* fixed piece of a template that holds no line break.  NL is the line     *)
(* break.  A JavaScript object is a TLA+ function on its own property      *)
(* names; an object on the heap is an index into a sequence of objects.    *)
(***************************************************************************)
EXTENDS Integers, Sequences, FiniteSets, TLC

\* ------------------------------------------------------------------ bounds

\* apply calls in one run
MaxApply == 2

\* webhook events received in one run
MaxEvents == 2

\* characters in one commit message drawn for the push formatter
MaxMsgLen == 2

\* commits in one push drawn for the push formatter
MaxCommits == 2

\* ------------------------------------------------------------- JS helpers

NL == "\n"

\* the whitespace class \s of a regular expression, over the model's alphabet
IsSpace(c) == c \in {" ", NL}

Digits == <<"0", "1", "2", "3", "4", "5", "6", "7", "8", "9">>

RECURSIVE ToStr(_)
\* Number.prototype.toString of a non-negative integer
ToStr(n) == IF n < 10 THEN <<Digits[n + 1]>>
            ELSE ToStr(n \div 10) \o <<Digits[(n % 10) + 1]>>

\* ---------------------------------------------------------- configuration

DefaultPort == 12140

defaultOptions == [port |-> DefaultPort, secret |-> <<>>, path |-> <<"/">>]

\* a second port, whose digits end the default port's
OtherPort == DefaultPort % 10000

Apps == {"app1", "app2"}

EmptyObject == [f \in {} |-> 0]

\* app.options.gitlabWebhook as the host may supply it: any subset of the
\* three properties (EmptyObject also stands for an undefined gitlabWebhook:
\* spreading either adds no property)
HostConfigs ==
    { EmptyObject,
      [secret |-> <<"1">>],
      [port |-> OtherPort],
      [secret |-> <<"1">>, port |-> OtherPort],
      [path |-> <<"/", "a">>] }

Kinds == {"push", "tag_push", "issue", "note", "merge_request"}

VARIABLES
    appOptions,    \* app -> its options.gitlabWebhook
    receivers,     \* heap of WebhookHandler objects
    webhooks,      \* the registry `webhooks`: key -> receiver
    httpServers,   \* heap of http.Server objects
    servers,       \* the registry `servers`: port -> server
    onStartHooks,  \* callbacks given to onStart, in order
    onStopHooks,   \* callbacks given to onStop, in order
    phase,         \* "init" | "started" | "stopped"
    plugins,       \* one closure per apply call: its ctx, options, webhook
    tasks,         \* invocations of the async handlers wrapHandler returns
    nEvents,       \* events received so far
    payloadIn,     \* the payload handed to a formatter on its own
    messageOut     \* what that formatter returned

wiringVars == <<appOptions, receivers, webhooks, httpServers, servers,
                onStartHooks, onStopHooks, phase, plugins>>
routingVars == <<tasks, nEvents>>
formatVars == <<payloadIn, messageOut>>
vars == <<wiringVars, routingVars, formatVars>>

\* ------------------------------------------------------------------ apply

\* const config = ctx.app.options.gitlabWebhook = {...defaultOptions, ...given}
MergeConfig(given) == given @@ defaultOptions

\* const key = config.path + config.secret + config.port
ReceiverKey(config) == config.path \o config.secret \o ToStr(config.port)

\* if (!webhooks[key])
NeedsReceiver(key) == key \notin DOMAIN webhooks

\* a listener for every caller
NeedsServerAlways(port) == TRUE

\* if (!servers[config.port])
NeedsServer(port) == port \notin DOMAIN servers

\* WebhookHandler(config): a receiver holding its options and no handlers
NewReceiver(config) == [option |-> config, on |-> [k \in Kinds |-> <<>>]]

\* createServer(webhooks[key]): a server that is not listening yet.  The
\* field born is history: the phase in which the server was created.
NewServer(receiver) ==
    [requestListener |-> receiver, listening |-> FALSE, born |-> phase]

\* webhook.on(kind, wrapHandler(...)) for the five kinds: the plugin's
\* handler is appended to each kind's listeners
RegisterHandlers(recv, plugin) ==
    [recv EXCEPT !.on = [k \in Kinds |-> Append(recv.on[k], plugin)]]

Apply(app, options) ==
    LET config == MergeConfig(appOptions[app])
        key == ReceiverKey(config)
        fresh == NeedsReceiver(key)
        heap1 == IF fresh THEN Append(receivers, NewReceiver(config))
                 ELSE receivers
        reg1 == IF fresh THEN (key :> Len(heap1)) @@ webhooks ELSE webhooks
        webhook == reg1[key]
        bind == NeedsServer(config.port)
        srv == Len(httpServers) + 1
        me == Len(plugins) + 1
    IN  /\ Len(plugins) < MaxApply
        /\ appOptions' = [appOptions EXCEPT ![app] = config]
        /\ webhooks' = reg1
        /\ httpServers' = IF bind THEN Append(httpServers, NewServer(webhook))
                          ELSE httpServers
        /\ servers' = IF bind THEN (config.port :> srv) @@ servers ELSE servers
        /\ onStartHooks' = IF bind
                           THEN Append(onStartHooks,
                                       [server |-> srv, port |-> config.port])
                           ELSE onStartHooks
        /\ onStopHooks' = IF bind THEN Append(onStopHooks, [server |-> srv])
                          ELSE onStopHooks
        /\ plugins' = Append(plugins, [app |-> app, options |-> options,
                                       config |-> config, webhook |-> webhook])
        /\ receivers' = [heap1 EXCEPT
                           ![webhook] = RegisterHandlers(heap1[webhook], me)]
        /\ UNCHANGED <<phase, routingVars, formatVars>>

\* ------------------------------------------------------- start and stop

\* the servers some hook of the list names
Hooked(hooks) == {hooks[i].server : i \in 1..Len(hooks)}

\* the start event: every callback given to onStart runs server.listen(port)
RunStartHooks(heap) ==
    [s \in 1..Len(heap) |->
        IF s \in Hooked(onStartHooks) THEN [heap[s] EXCEPT !.listening = TRUE]
        ELSE heap[s]]

\* server.close() left out
RunStopHooksNoClose(heap) == heap

\* the stop event: every callback given to onStop runs server.close()
RunStopHooks(heap) ==
    [s \in 1..Len(heap) |->
        IF s \in Hooked(onStopHooks) THEN [heap[s] EXCEPT !.listening = FALSE]
        ELSE heap[s]]

Start ==
    /\ phase = "init"
    /\ phase' = "started"
    /\ httpServers' = RunStartHooks(httpServers)
    /\ UNCHANGED <<appOptions, receivers, webhooks, servers, onStartHooks,
                   onStopHooks, plugins, routingVars, formatVars>>

Stop ==
    /\ phase = "started"
    /\ phase' = "stopped"
    /\ httpServers' = RunStopHooks(httpServers)
    /\ UNCHANGED <<appOptions, receivers, webhooks, servers, onStartHooks,
                   onStopHooks, plugins, routingVars, formatVars>>

\* ------------------------------------------------------- routing options

\* the options argument of apply: project path -> list of group ids
RoutingOptions ==
    { EmptyObject,
      ("g/p" :> <<2, 1>>) }

\* a property name every object inherits from Object.prototype (toString,
\* valueOf, hasOwnProperty and __proto__ behave alike)
ObjectPrototypeKeys == {"constructor"}

\* options[name]: an own property's array, else what the prototype chain
\* holds under that name (a function, which is truthy and cannot be
\* iterated), else undefined
GetProperty(options, name) ==
    IF name \in DOMAIN options
        THEN [type |-> "array", list |-> options[name]]
    ELSE IF name \in ObjectPrototypeKeys
        THEN [type |-> "function", list |-> <<>>]
    ELSE [type |-> "undefined", list |-> <<>>]

\* ------------------------------------------------------------- formatters

Undefined == [some |-> FALSE, text |-> <<>>]
Str(text) == [some |-> TRUE, text |-> text]

\* !value of a string or undefined
Falsy(value) == ~value.some \/ value.text = <<>>

RECURSIVE Join(_, _)
\* Array.prototype.join
Join(parts, sep) ==
    IF parts = <<>> THEN <<>>
    ELSE IF Len(parts) = 1 THEN parts[1]
    ELSE parts[1] \o sep \o Join(Tail(parts), sep)

\* where the longest match of \n\s*\n starting at i ends, 0 if none starts
MatchEnd(s, i) ==
    IF s[i] # NL THEN 0
    ELSE LET ends == {j \in (i + 1)..Len(s) :
                         /\ s[j] = NL
                         /\ \A k \in (i + 1)..(j - 1) : IsSpace(s[k])}
         IN  IF ends = {} THEN 0
             ELSE CHOOSE j \in ends : \A k \in ends : k <= j

RECURSIVE ReplaceFrom(_, _, _)
\* the rest of s from i on, each match replaced by `by`
ReplaceFrom(s, i, by) ==
    IF i > Len(s) THEN <<>>
    ELSE IF MatchEnd(s, i) > 0
        THEN by \o ReplaceFrom(s, MatchEnd(s, i) + 1, by)
    ELSE <<s[i]>> \o ReplaceFrom(s, i + 1, by)

\* the replacement string left empty
CollapseToNothing(s) == ReplaceFrom(s, 1, <<>>)

\* s.replace(/\n\s*\n/g, '\n')
Collapse(s) == ReplaceFrom(s, 1, <<NL>>)

\* /^0+$/.test(after)
AllZero(after) == Len(after) >= 1 /\ \A i \in 1..Len(after) : after[i] = "0"

PushHeader(e) ==
    << <<"[GitLab] Push (", e.path_with_namespace, ")">>,
       <<"Ref: ", e.ref>>,
       <<"User: ", e.user_name>> >>

push(e) ==
    IF AllZero(e.after) THEN Undefined
    ELSE Str(Join(PushHeader(e)
                  \o [i \in 1..Len(e.commits) |-> Collapse(e.commits[i].message)],
                  <<NL>>))

tag_push(e) ==
    Str(<<"[GitLab] ", e.path_with_namespace, " published tag ">>
        \o SubSeq(e.ref, 11, Len(e.ref)))

\* every action reported as an opened issue
issueAnyAction(e) ==
    Str(Join(<< <<"[GitLab] Issue Opened (", e.path_with_namespace, "#", e.iid, ")">>,
                <<"Title: ", e.title>>,
                <<"User: ", e.user_name>>,
                <<"URL: ", e.url>>,
                Collapse(e.description) >>, <<NL>>))

issue(e) ==
    IF e.action = "open"
        THEN Str(Join(<< <<"[GitLab] Issue Opened (", e.path_with_namespace,
                           "#", e.iid, ")">>,
                         <<"Title: ", e.title>>,
                         <<"User: ", e.user_name>>,
                         <<"URL: ", e.url>>,
                         Collapse(e.description) >>, <<NL>>))
    ELSE Undefined

NoteBody(e) ==
    << <<"User: ", e.user_name>>, <<"URL: ", e.url>>, Collapse(e.note) >>

note(e) ==
    CASE e.noteable_type = "Commit" ->
            Str(Join(<< <<"[GitLab] Commit Comment (", e.path_with_namespace, ")">> >>
                     \o NoteBody(e), <<NL>>))
      [] e.noteable_type = "MergeRequest" ->
            Str(Join(<< <<"[GitLab] Merge Request Comment (",
                          e.path_with_namespace, "#", e.merge_request_iid, ")">> >>
                     \o NoteBody(e), <<NL>>))
      [] e.noteable_type = "Issue" ->
            Str(Join(<< <<"[GitLab] Issue Comment (", e.path_with_namespace,
                          "#", e.issue_iid, ")">> >>
                     \o NoteBody(e), <<NL>>))
      [] OTHER -> Undefined

merge_request(e) ==
    IF e.action = "open"
        THEN Str(Join(<< <<"[GitLab] Pull Request Opened (", e.path_with_namespace,
                           "#", e.iid, ")">>,
                         <<e.target, "/", e.target_branch, " <- ",
                           e.source, "/", e.source_branch>>,
                         <<"User: ", e.user_name>>,
                         <<"URL: ", e.url>>,
                         Collapse(e.title) >>, <<NL>>))
    ELSE Undefined

\* the formatter registered for the payload's kind
Handler(e) ==
    CASE e.kind = "push" -> push(e)
      [] e.kind = "tag_push" -> tag_push(e)
      [] e.kind = "issue" -> issue(e)
      [] e.kind = "note" -> note(e)
      [] e.kind = "merge_request" -> merge_request(e)

\* --------------------------------------------------------------- payloads

ProjectPaths == {"g/p", "g/q", "constructor"}

BlankRunText == <<"a", NL, NL, "b">>

TagRef == <<"r", "e", "f", "s", "/", "t", "a", "g", "s", "/", "v", "1">>

PushPayloads(paths, afters, commitLists) ==
    [kind : {"push"}, path_with_namespace : paths, ref : {"refs/heads/main"},
     user_name : {"u"}, after : afters, commits : commitLists]

TagPushPayloads(paths) ==
    [kind : {"tag_push"}, path_with_namespace : paths, ref : {TagRef}]

IssuePayloads(paths) ==
    [kind : {"issue"}, path_with_namespace : paths, user_name : {"u"},
     action : {"open", "close"}, iid : {"7"}, title : {"t"}, url : {"http://i"},
     description : {BlankRunText}]

NotePayloads(paths) ==
    [kind : {"note"}, path_with_namespace : paths, user_name : {"u"},
     noteable_type : {"Commit", "MergeRequest", "Issue", "Snippet"},
     url : {"http://n"}, note : {BlankRunText},
     merge_request_iid : {"8"}, issue_iid : {"7"}]

MergeRequestPayloads(paths) ==
    [kind : {"merge_request"}, path_with_namespace : paths, user_name : {"u"},
     action : {"open", "merge"}, iid : {"8"}, title : {BlankRunText},
     url : {"http://m"}, target : {"g/p"}, target_branch : {"main"},
     source : {"g/f"}, source_branch : {"dev"}]

\* the events a run of the whole plugin receives
Payloads ==
    PushPayloads(ProjectPaths, {<<"0", "0">>, <<>>, <<"0", "a">>},
                 {<<[message |-> BlankRunText]>>})
    \cup TagPushPayloads(ProjectPaths)
    \cup IssuePayloads(ProjectPaths)
    \cup NotePayloads(ProjectPaths)
    \cup MergeRequestPayloads(ProjectPaths)

\* ------------------------------------------------------------ wrapHandler

\* the handler's run from its call to its first await: the lookup, the
\* early return, and the call of the formatter
Enter(ev, plugin, e) ==
    LET groups == GetProperty(plugins[plugin].options, e.path_with_namespace)
    IN  IF groups.type = "undefined"
            THEN [ev |-> ev, plugin |-> plugin, payload |-> e, groups |-> groups,
                  formatted |-> FALSE, message |-> Undefined, sent |-> <<>>,
                  pc |-> "returned"]
        ELSE [ev |-> ev, plugin |-> plugin, payload |-> e, groups |-> groups,
              formatted |-> TRUE, message |-> Handler(e), sent |-> <<>>,
              pc |-> "await_handler"]

\* ctx.sender.sendGroupMsgAsync(id, message), not yet settled
Request(id, message) == [id |-> id, message |-> message.text, status |-> "pending"]

\* every send requested at once, none awaited
SendNextAll(task) ==
    [task EXCEPT
        !.sent = [k \in 1..Len(task.groups.list) |->
                     Request(task.groups.list[k], task.message)],
        !.pc = IF task.groups.list = <<>> THEN "returned" ELSE "await_send"]

\* one turn of `for (const id of groups)`: the next id's send is requested
\* and awaited, or the loop ends
SendNext(task) ==
    IF Len(task.sent) < Len(task.groups.list)
        THEN [task EXCEPT
                !.sent = Append(@, Request(task.groups.list[Len(task.sent) + 1],
                                           task.message)),
                !.pc = "await_send"]
    ELSE [task EXCEPT !.pc = "returned"]

\* the handler's run after `await handler(event.payload)`
Resume(task) ==
    IF Falsy(task.message) THEN [task EXCEPT !.pc = "returned"]
    ELSE IF task.groups.type # "array" THEN [task EXCEPT !.pc = "rejected"]
    ELSE SendNext(task)

Settle(task, status) ==
    [task EXCEPT !.sent[Len(task.sent)].status = status]

\* a request reaches a listening server, whose receiver emits the event: the
\* handlers registered for the kind are called in order of registration
Receive(s, e) ==
    /\ nEvents < MaxEvents
    /\ s \in 1..Len(httpServers)
    /\ httpServers[s].listening
    /\ LET on == receivers[httpServers[s].requestListener].on[e.kind]
       IN  tasks' = tasks \o [i \in 1..Len(on) |-> Enter(nEvents + 1, on[i], e)]
    /\ nEvents' = nEvents + 1
    /\ UNCHANGED <<wiringVars, formatVars>>

AfterHandler(t) ==
    /\ tasks[t].pc = "await_handler"
    /\ tasks' = [tasks EXCEPT ![t] = Resume(tasks[t])]
    /\ UNCHANGED <<wiringVars, nEvents, formatVars>>

\* the awaited send resolves
SendResolved(t) ==
    /\ tasks[t].pc = "await_send"
    /\ tasks' = [tasks EXCEPT ![t] = SendNext(Settle(tasks[t], "resolved"))]
    /\ UNCHANGED <<wiringVars, nEvents, formatVars>>

\* the awaited send rejects: the await throws and the handler's promise rejects
SendRejected(t) ==
    /\ tasks[t].pc = "await_send"
    /\ tasks' = [tasks EXCEPT ![t] = [Settle(tasks[t], "rejected")
                                          EXCEPT !.pc = "rejected"]]
    /\ UNCHANGED <<wiringVars, nEvents, formatVars>>

\* ------------------------------------------------- a formatter on its own

\* no payload drawn, no formatter called
Idle == [kind |-> "none"]

Alphabet == {"a", " ", NL}

RECURSIVE TextsUpTo(_)
TextsUpTo(n) ==
    IF n = 0 THEN {<<>>}
    ELSE LET shorter == TextsUpTo(n - 1)
         IN  shorter \cup {Append(t, c) : t \in shorter, c \in Alphabet}

RECURSIVE ListsUpTo(_, _)
ListsUpTo(S, n) ==
    IF n = 0 THEN {<<>>}
    ELSE LET shorter == ListsUpTo(S, n - 1)
         IN  shorter \cup {Append(l, x) : l \in shorter, x \in S}

CommitLists ==
    ListsUpTo({[message |-> m] : m \in TextsUpTo(MaxMsgLen)}, MaxCommits)

FormatterInputs ==
    PushPayloads({"g/p"}, {<<"0">>, <<"0", "0">>, <<>>, <<"a">>, <<"0", "a">>},
                 CommitLists)
    \cup Payloads

Format ==
    /\ payloadIn # Idle
    /\ messageOut = Idle
    /\ messageOut' = Handler(payloadIn)
    /\ UNCHANGED <<wiringVars, routingVars, payloadIn>>

\* --------------------------------------------------------- specifications

Blank ==
    /\ receivers = <<>>
    /\ webhooks = [k \in {} |-> 0]
    /\ httpServers = <<>>
    /\ servers = [p \in {} |-> 0]
    /\ onStartHooks = <<>>
    /\ onStopHooks = <<>>
    /\ phase = "init"
    /\ plugins = <<>>
    /\ tasks = <<>>
    /\ nEvents = 0

\* the whole plugin: app1 leaves gitlabWebhook to its defaults, app2 sets a
\* secret of its own on the default port
Init ==
    /\ appOptions = [a \in Apps |-> IF a = "app1" THEN EmptyObject
                                    ELSE [secret |-> <<"1">>]]
    /\ Blank
    /\ payloadIn = Idle
    /\ messageOut = Idle

Next ==
    \/ \E app \in Apps, options \in RoutingOptions : Apply(app, options)
    \/ Start
    \/ Stop
    \/ \E s \in 1..Len(httpServers), e \in Payloads : Receive(s, e)
    \/ \E t \in 1..Len(tasks) : AfterHandler(t)
    \/ \E t \in 1..Len(tasks) : SendResolved(t)
    \/ \E t \in 1..Len(tasks) : SendRejected(t)

Spec == Init /\ [][Next]_vars

\* registration and lifecycle alone, for every host configuration
InitWiring ==
    /\ appOptions \in [Apps -> HostConfigs]
    /\ Blank
    /\ payloadIn = Idle
    /\ messageOut = Idle

NextWiring ==
    \/ \E app \in Apps, options \in RoutingOptions : Apply(app, options)
    \/ Start
    \/ Stop

SpecWiring == InitWiring /\ [][NextWiring]_vars

\* one formatter call on a drawn payload
InitFormat ==
    /\ appOptions = [a \in Apps |-> EmptyObject]
    /\ Blank
    /\ payloadIn \in FormatterInputs
    /\ messageOut = Idle

NextFormat == Format

SpecFormat == InitFormat /\ [][NextFormat]_vars

\* ----------------------------------------------------- registration claims

\* the (path, secret, port) triples some caller of apply requested
Triple(c) == <<c.path, c.secret, c.port>>
Requested == {Triple(plugins[i].config) : i \in 1..Len(plugins)}
RequestedPorts == {plugins[i].config.port : i \in 1..Len(plugins)}

\* C3: registration is idempotent per (path, secret, port) triple: callers
\* that request the same triple hold the same receiver and are served by the
\* one listener of their port; no more receivers were ever constructed than
\* distinct triples were requested and exactly one listener was created per
\* requested port, so a repeated request creates neither; no two listeners
\* were ever created for one port.
C3_IdempotentRegistration ==
    /\ \A i, j \in 1..Len(plugins) :
          plugins[i].config = plugins[j].config
              => plugins[i].webhook = plugins[j].webhook
    /\ Len(receivers) <= Cardinality(Requested)
    /\ Len(httpServers) = Cardinality(RequestedPorts)
    /\ Len(onStartHooks) = Len(httpServers)
    /\ \A h, k \in 1..Len(onStartHooks) :
          onStartHooks[h].port = onStartHooks[k].port => h = k
    /\ \A p \in DOMAIN servers :
          \E h \in 1..Len(onStartHooks) :
              onStartHooks[h] = [server |-> servers[p], port |-> p]

\* two callers asked for one triple, and one receiver and one listener exist
C3_Witness ==
    /\ Len(plugins) >= 2
    /\ plugins[1].config = plugins[2].config
    /\ Len(receivers) = 1
    /\ Len(httpServers) = 1

\* C10: every requested triple is served: its receiver was constructed with
\* that path and secret and is the request handler of the listener of its
\* port, and two distinct triples never share a receiver.
C10_EveryTripleServed ==
    /\ \A i \in 1..Len(plugins) :
          LET c == plugins[i].config
              r == plugins[i].webhook
          IN  /\ receivers[r].option.path = c.path
              /\ receivers[r].option.secret = c.secret
              /\ c.port \in DOMAIN servers
              /\ httpServers[servers[c.port]].requestListener = r
    /\ \A i, j \in 1..Len(plugins) :
          plugins[i].config # plugins[j].config
              => plugins[i].webhook # plugins[j].webhook

\* C8 as stated: no listener listens before start, every listener of the
\* registry listens between start and stop, none listens after stop, for any
\* order of apply, start and stop.
C8_ListeningFollowsLifecycle ==
    /\ phase = "init" =>
          \A s \in 1..Len(httpServers) : ~httpServers[s].listening
    /\ phase = "started" =>
          \A p \in DOMAIN servers : httpServers[servers[p]].listening
    /\ phase = "stopped" =>
          \A s \in 1..Len(httpServers) : ~httpServers[s].listening

\* C8 amended: no listener listens before start or after stop; between start
\* and stop a listener listens exactly if apply created it before the start
\* event (the callback apply hands to onStart after the start event has
\* fired is never run).
C8_ListeningIfCreatedBeforeStart ==
    /\ phase # "started" =>
          \A s \in 1..Len(httpServers) : ~httpServers[s].listening
    /\ phase = "started" =>
          \A s \in 1..Len(httpServers) :
              httpServers[s].listening <=> httpServers[s].born = "init"
    /\ \A p \in DOMAIN servers : servers[p] \in 1..Len(httpServers)

\* started, with one listener created before the start event and one after
C8_Witness ==
    /\ phase = "started"
    /\ \E s \in 1..Len(httpServers) : httpServers[s].listening
    /\ \E s \in 1..Len(httpServers) :
          /\ ~httpServers[s].listening
          /\ httpServers[s].born = "started"

\* ---------------------------------------------------------- routing claims

Ids(sent) == [k \in 1..Len(sent) |-> sent[k].id]
Finished(task) == task.pc \in {"returned", "rejected"}
Mapped(task) ==
    task.payload.path_with_namespace \in DOMAIN plugins[task.plugin].options

\* C1: an event whose project path is not a key of the routing mapping
\* causes no send and raises no error, whatever its kind and other fields.
C1_UnmappedDropsSilently ==
    \A t \in 1..Len(tasks) :
        ~Mapped(tasks[t]) => tasks[t].sent = <<>> /\ tasks[t].pc # "rejected"

\* C2: a failing send does not keep the sends to the other groups from being
\* requested and surfaces no error: a handling that is over has requested a
\* send to every group of its list and has not rejected.
C2_SendsAreIndependent ==
    \A t \in 1..Len(tasks) :
        (Finished(tasks[t]) /\ Mapped(tasks[t]) /\ ~Falsy(tasks[t].message))
            => /\ Ids(tasks[t].sent) = tasks[t].groups.list
               /\ tasks[t].pc # "rejected"

\* the sends of event ev to group id, over all its handlers
SendsTo(ev, id) ==
    {p \in UNION {{<<t, k>> : k \in 1..Len(tasks[t].sent)} : t \in 1..Len(tasks)} :
        /\ tasks[p[1]].ev = ev
        /\ tasks[p[1]].sent[p[2]].id = id}

\* every handler of event ev has returned: no send failed, none is pending
AllReturned(ev) ==
    \A t \in 1..Len(tasks) : tasks[t].ev = ev => tasks[t].pc = "returned"

\* C4: once the handling of a mapped, unsuppressed event is over with no
\* send failed, each destination group configured for it was sent its
\* message exactly once, whatever apply calls came before.
C4_OncePerEventAndGroup ==
    \A ev \in 1..nEvents :
        AllReturned(ev) =>
            \A t \in 1..Len(tasks) :
                (tasks[t].ev = ev /\ Mapped(tasks[t]) /\ ~Falsy(tasks[t].message))
                    => \A k \in 1..Len(tasks[t].groups.list) :
                          Cardinality(SendsTo(ev, tasks[t].groups.list[k])) = 1

\* C5: a push whose after is all zeros yields no message and no send even
\* for a mapped project; any other push of a mapped project yields a message
\* and, its handling over, a send to each of the mapped groups.
C5_PushSuppressedIffAllZero ==
    \A t \in 1..Len(tasks) :
        (tasks[t].payload.kind = "push" /\ Mapped(tasks[t]))
            => IF AllZero(tasks[t].payload.after)
                   THEN ~tasks[t].message.some /\ tasks[t].sent = <<>>
               ELSE /\ ~Falsy(tasks[t].message)
                    /\ Finished(tasks[t])
                          => Ids(tasks[t].sent) = tasks[t].groups.list

\* what holds of the code where C1 and C5 fail: an unmapped path never gets
\* a send, and a push of a mapped project has a message exactly if its after
\* is not all zeros, a suppressed one no send
UnmappedNeverSends ==
    \A t \in 1..Len(tasks) : ~Mapped(tasks[t]) => tasks[t].sent = <<>>

PushMessageIffNotAllZero ==
    \A t \in 1..Len(tasks) :
        (tasks[t].payload.kind = "push" /\ Mapped(tasks[t]))
            => /\ Falsy(tasks[t].message) <=> AllZero(tasks[t].payload.after)
               /\ AllZero(tasks[t].payload.after) => tasks[t].sent = <<>>

\* the variants of a kind its formatter reports
Supported(e) ==
    CASE e.kind \in {"issue", "merge_request"} -> e.action = "open"
      [] e.kind = "note" -> e.noteable_type \in {"Commit", "MergeRequest", "Issue"}
      [] OTHER -> TRUE

\* C6: for an issue, merge request or note event whose formatter was called,
\* an unsupported variant (an action other than open, a noteable type outside
\* Commit, MergeRequest, Issue) yields no message, no send and no error, and
\* a supported variant always yields a message.
C6_UnsupportedVariantsSuppressed ==
    \A t \in 1..Len(tasks) :
        (tasks[t].formatted
             /\ tasks[t].payload.kind \in {"issue", "merge_request", "note"})
            => IF Supported(tasks[t].payload)
                   THEN ~Falsy(tasks[t].message)
               ELSE /\ ~tasks[t].message.some
                    /\ tasks[t].sent = <<>>
                    /\ tasks[t].pc \in {"await_handler", "returned"}

\* the handling of a closed issue of a mapped project has returned, and an
\* opened issue's message is being sent
C6_Witness ==
    /\ \E t \in 1..Len(tasks) :
          /\ tasks[t].payload.kind = "issue"
          /\ tasks[t].payload.action = "close"
          /\ Mapped(tasks[t])
          /\ tasks[t].pc = "returned"
    /\ \E t \in 1..Len(tasks) :
          /\ tasks[t].payload.kind = "issue"
          /\ tasks[t].payload.action = "open"
          /\ tasks[t].pc = "await_send"

\* C9: within one handling the sends are requested in the order of the group
\* list, the send to the next group only once the send before it has
\* resolved; the formatter is called only after the lookup found something
\* and has returned before the first send is requested, which carries its
\* message.
C9_SendsInOrderOneAtATime ==
    \A t \in 1..Len(tasks) :
        LET task == tasks[t]
            n == Len(task.sent)
        IN  /\ n <= Len(task.groups.list)
            /\ Ids(task.sent) = SubSeq(task.groups.list, 1, n)
            /\ \A k \in 1..(n - 1) : task.sent[k].status = "resolved"
            /\ task.formatted <=> task.groups.type # "undefined"
            /\ n > 0 => /\ task.formatted
                        /\ task.pc # "await_handler"
                        /\ \A k \in 1..n : task.sent[k].message = task.message.text
            /\ task.pc = "await_handler" => n = 0 /\ task.formatted
            /\ task.pc = "await_send" <=>
                  (n > 0 /\ task.sent[n].status = "pending")

\* the second group's send is pending after the first group's resolved,
\* while the handling of another event awaits a send of its own
C9_Witness ==
    \E t, u \in 1..Len(tasks) :
        /\ tasks[t].ev # tasks[u].ev
        /\ Len(tasks[t].sent) = 2
        /\ Ids(tasks[t].sent) = <<2, 1>>
        /\ tasks[t].sent[1].status = "resolved"
        /\ tasks[t].sent[2].status = "pending"
        /\ tasks[u].pc = "await_send"

\* ------------------------------------------------------- formatter claims

Newlines(text) == Cardinality({i \in 1..Len(text) : text[i] = NL})
Lines(text) == 1 + Newlines(text)

\* the characters of a text that are not whitespace, in order
RECURSIVE Ink(_)
Ink(text) ==
    IF text = <<>> THEN <<>>
    ELSE IF IsSpace(text[1]) THEN Ink(Tail(text))
    ELSE <<text[1]>> \o Ink(Tail(text))

\* a line break followed, after whitespace only, by another line break
HasBlankRun(text) ==
    \E i, j \in 1..Len(text) :
        /\ i < j
        /\ text[i] = NL
        /\ text[j] = NL
        /\ \A k \in (i + 1)..(j - 1) : IsSpace(text[k])

RECURSIVE Sum(_, _)
Sum(f, n) == IF n = 0 THEN 0 ELSE f[n] + Sum(f, n - 1)

PushFormatted ==
    /\ payloadIn.kind = "push"
    /\ messageOut # Idle
    /\ ~AllZero(payloadIn.after)

\* C7 as stated: the output of a push with a non-zero after has exactly
\* three header lines plus one line per commit.
C7_OneLinePerCommit ==
    PushFormatted =>
        /\ messageOut.some
        /\ Lines(messageOut.text) = 3 + Len(payloadIn.commits)

\* C7 amended: the output of a push with a non-zero after starts with the
\* three header lines and holds, for each commit, its message with every
\* blank-line run collapsed to one line break: as many lines as the commit
\* message has between blank-line runs, so at least one line per commit, at
\* most the lines of the messages as received, and exactly 3 + number of
\* commits lines when no commit message holds a line break.
C7_CommitLinesCollapsed ==
    PushFormatted =>
        LET out == messageOut.text
            msgs == [i \in 1..Len(payloadIn.commits) |->
                        payloadIn.commits[i].message]
            n == Len(msgs)
            head == Join(PushHeader(payloadIn), <<NL>>)
        IN  /\ messageOut.some
            /\ Lines(head) = 3
            /\ SubSeq(out, 1, Len(head)) = head
            /\ Lines(out) >= 3 + n
            /\ Lines(out) <= 3 + Sum([i \in 1..n |-> Lines(msgs[i])], n)
            /\ (\A i \in 1..n : Newlines(msgs[i]) = 0) => Lines(out) = 3 + n
            /\ Ink(SubSeq(out, Len(head) + 1, Len(out)))
                  = Ink(Join(msgs, <<>>))
            /\ \A i \in 1..n :
                  /\ ~HasBlankRun(Collapse(msgs[i]))
                  /\ Newlines(msgs[i]) > 0 <=> Newlines(Collapse(msgs[i])) > 0
                  /\ ~HasBlankRun(msgs[i]) => Collapse(msgs[i]) = msgs[i]
            /\ Lines(out)
                  = 3 + Sum([i \in 1..n |-> Lines(Collapse(msgs[i]))], n)

\* a push of two commits, one message holding a blank-line run, formatted
C7_Witness ==
    /\ PushFormatted
    /\ Len(payloadIn.commits) = 2
    /\ \E i \in 1..2 : HasBlankRun(payloadIn.commits[i].message)
    /\ Lines(messageOut.text) > 5

====
